---- MODULE Spec2Model ----
(***************************************************************************)
(* gct: a terminal dashboard of trades (src/main.go).                      *)
(*                                                                         *)
(*   Connect / reader goroutine  -> out channel -> main loop               *)
(*   main loop: ProcessMessage (trade history, OHLC buckets) then Draw     *)
(*   Draw: DrawTrades, DrawCandles, DrawVolume on frames of the terminal   *)
(*                                                                         *)
(* Prices (float64 in the code) are modelled as integers; the one float    *)
(* operation whose rounding is modelled is the division of the column      *)
(* mapping (FDiv), rounded to Prec fractional bits.  Timestamps are        *)
(* integers counted from the zero time.                                    *)
(***************************************************************************)
EXTENDS Integers, Sequences, FiniteSets, TLC

VARIABLES
    trades,              \* main: trades []gdax.Message
    buckets,             \* main: buckets []*Bucket
    routed,              \* history: the prices routed into each bucket, in order
    connectionErrCount,  \* package variable connectionErrCount
    tasks,               \* the reader goroutines started by Connect, in order
    crashed,             \* the process died of a panic
    readLog,             \* history: the outcome of every ReadJSON so far, in order
    lastSleep,           \* history: the seconds of the most recent time.Sleep
    events,              \* GetEvents: the event its goroutine is blocked on sending
    mainPc,              \* main: "Init", "Running" or "Terminated"
    term,                \* termbox.Size(): [width, height]
    screen,              \* what the last Draw painted
    draws                \* history: the number of Draw calls so far

vars == <<trades, buckets, routed, connectionErrCount, tasks, crashed, readLog,
          lastSleep, events, mainPc, term, screen, draws>>

aggVars == <<trades, buckets, routed>>
connVars == <<connectionErrCount, tasks, crashed, readLog, lastSleep>>
uiVars == <<events, mainPc, term, screen, draws>>

-----------------------------------------------------------------------------
(* Bounds of the model *)

\* the longest trade history explored when ProcessMessage is driven alone
MaxTrades == 4

\* the latest timestamp of a trade
MaxTime == 2

\* --candle_size, in the time unit of the model
candleSize == 2

\* fractional bits kept by a floating-point quotient
Prec == 4

\* the number of ReadJSON calls explored in the whole program
MaxReads == 3

\* no resize event is polled once this many Draw calls were made
MaxDraws == 3

-----------------------------------------------------------------------------
(* Program constants *)

\* --volume_width
volumeWidth == 11

\* --trade_width
tradeWidth == 14

\* math.MaxFloat32, the Min of a fresh bucket and the initial lowerBound:
\* a stand-in above every price of the model
MaxFloat32 == 1000000

-----------------------------------------------------------------------------
(* Helpers *)

Min2(a, b) == IF a <= b THEN a ELSE b

Max2(a, b) == IF a >= b THEN a ELSE b

Last(s) == s[Len(s)]

RECURSIVE SeqMin(_)
SeqMin(s) == IF Len(s) = 1 THEN s[1] ELSE Min2(s[1], SeqMin(Tail(s)))

RECURSIVE SeqMax(_)
SeqMax(s) == IF Len(s) = 1 THEN s[1] ELSE Max2(s[1], SeqMax(Tail(s)))

-----------------------------------------------------------------------------
(* ProcessMessage *)

\* a plausible slip: the timestamp is used as the bucket start unrounded
TruncateIdentity(t, d) == t

\* time.Time.Truncate(d): t rounded down to a multiple of d since the zero
\* time; t itself when d <= 0
Truncate(t, d) == IF d <= 0 THEN t ELSE t - (t % d)

\* a plausible slip: a fresh bucket already counts its first trade
NewBucketCounted(message, t) ==
    [Open |-> message.Price, Close |-> message.Price, Start |-> t,
     Min |-> MaxFloat32, Max |-> 0, Trades |-> 1, Duration |-> candleSize]

\* the Bucket literal of lines 268-275 and 283-290 (Trades is left 0)
NewBucket(message, t) ==
    [Open |-> message.Price, Close |-> message.Price, Start |-> t,
     Min |-> MaxFloat32, Max |-> 0, Trades |-> 0, Duration |-> candleSize]

\* a plausible slip: the trade is not counted
CountTradeNoCount(bucket, price) ==
    [bucket EXCEPT !.Max = Max2(@, price), !.Min = Min2(@, price)]

\* a plausible slip: the minimum is not maintained
CountTradeNoMin(bucket, price) ==
    [bucket EXCEPT !.Trades = @ + 1, !.Max = Max2(@, price)]

\* lines 293-295: bucket.Trades++, Max and Min folded with the price
CountTrade(bucket, price) ==
    [bucket EXCEPT !.Trades = @ + 1,
                   !.Max = Max2(@, price),
                   !.Min = Min2(@, price)]

\* lines 266-276: if there are no buckets, start one
StartFirst(bs, message, t) ==
    IF Len(bs) = 0 THEN Append(bs, NewBucket(message, t)) ELSE bs

\* a plausible slip: the comparison with the last bucket's Start never holds
CloseOrStartAlwaysNew(bs, message, t) == Append(bs, NewBucket(message, t))

\* a plausible slip: bucket.Close is set before the comparison, so the old
\* last bucket is closed with the price that starts the new one
CloseOrStartClosesOld(bs, message, t) ==
    LET closed == [bs EXCEPT ![Len(bs)].Close = message.Price]
    IN  IF Last(bs).Start = t THEN closed
        ELSE Append(closed, NewBucket(message, t))

\* lines 278-292: close the last bucket with this price or start a new one
CloseOrStart(bs, message, t) ==
    IF Last(bs).Start = t
    THEN [bs EXCEPT ![Len(bs)].Close = message.Price]
    ELSE Append(bs, NewBucket(message, t))

\* the buckets after ProcessMessage(message, &trades, &buckets)
BucketsAfter(bs, message) ==
    LET t  == Truncate(message.Time, candleSize)
        b1 == StartFirst(bs, message, t)
        b2 == CloseOrStart(b1, message, t)
    IN  [b2 EXCEPT ![Len(b2)] = CountTrade(@, message.Price)]

\* ProcessMessage, with the prices routed into each bucket recorded
ProcessMessage(message) ==
    /\ trades' = Append(trades, message)
    /\ buckets' = BucketsAfter(buckets, message)
    /\ routed' = IF Len(buckets') > Len(buckets)
                 THEN Append(routed, <<message.Price>>)
                 ELSE [routed EXCEPT ![Len(routed)] = Append(@, message.Price)]

-----------------------------------------------------------------------------
(* Floating point: a value x is held as the integer x * Scale *)

RECURSIVE Pow2(_)
Pow2(n) == IF n = 0 THEN 1 ELSE 2 * Pow2(n - 1)

Scale == Pow2(Prec)

Abs(n) == IF n < 0 THEN -n ELSE n

\* the float64 quotient a / b (b # 0), rounded to the nearest multiple of
\* 1/Scale; the result is scaled by Scale
FDiv(a, b) ==
    LET sign == IF (a < 0) = (b < 0) THEN 1 ELSE -1
    IN  sign * ((2 * Abs(a) * Scale + Abs(b)) \div (2 * Abs(b)))

\* the conversion int(x) of a scaled float: the fraction is discarded
ToInt(x) == IF x >= 0 THEN x \div Scale ELSE -((-x) \div Scale)

-----------------------------------------------------------------------------
(* Draw *)

Frame(x, y, w, h) == [x |-> x, y |-> y, w |-> w, h |-> h]

\* DrawTrades, lines 177-187: row i shows trades[j] (j counted from 0)
RECURSIVE TradeRows(_, _, _, _)
TradeRows(tradeFrame, ts, i, j) ==
    IF j >= 0 /\ i < tradeFrame.h
    THEN <<[line |-> i, j |-> j,
            fg |-> IF ts[j + 1].Side = "sell" THEN "red" ELSE "green",
            side |-> ts[j + 1].Side, price |-> ts[j + 1].Price]>>
         \o TradeRows(tradeFrame, ts, i + 1, j - 1)
    ELSE <<>>

\* a plausible slip: the loop starts one element too far back
DrawTradesSkipsNewest(tradeFrame, ts) == TradeRows(tradeFrame, ts, 1, Len(ts) - 2)

\* DrawTrades, lines 175-189
DrawTrades(tradeFrame, ts) == TradeRows(tradeFrame, ts, 1, Len(ts) - 1)

\* lines 195-199: lowerBound and upperBound before the padding
RECURSIVE RawBounds(_, _, _)
RawBounds(bs, lowerBound, upperBound) ==
    IF bs = <<>> THEN [lowerBound |-> lowerBound, upperBound |-> upperBound]
    ELSE RawBounds(Tail(bs), Min2(lowerBound, bs[1].Min),
                   Max2(upperBound, bs[1].Max))

\* a plausible slip: a spread of exactly 100 is padded too
PaddedBoundsInclusive(raw) ==
    IF raw.upperBound - raw.lowerBound <= 100
    THEN [lowerBound |-> raw.lowerBound - 50, upperBound |-> raw.upperBound + 50]
    ELSE raw

\* lines 200-203: pad both bounds by 50 when they are less than 100 apart
PaddedBounds(raw) ==
    IF raw.upperBound - raw.lowerBound < 100
    THEN [lowerBound |-> raw.lowerBound - 50, upperBound |-> raw.upperBound + 50]
    ELSE raw

\* a plausible slip: the width factor of DrawVolume (w - 1) used here
ColumnWide(v, lowerBound, priceSpread, w) ==
    Scale + FDiv(v - lowerBound, priceSpread) * (w - 1)

\* lines 221-229: 1 + (v - lowerBound)/priceSpread*float64(candleFrame.w-2),
\* scaled by Scale
Column(v, lowerBound, priceSpread, w) ==
    Scale + FDiv(v - lowerBound, priceSpread) * (w - 2)

\* lines 206-233: one row per bucket, the wick and the body as the first and
\* the last column of their SetCell loops (no cell when start > stop)
RECURSIVE CandleRows(_, _, _, _, _, _)
CandleRows(candleFrame, bs, lowerBound, priceSpread, line, j) ==
    IF j >= 0 /\ line < candleFrame.h
    THEN LET bucket == bs[j + 1]
             col(v) == ToInt(Column(v, lowerBound, priceSpread, candleFrame.w))
         IN  <<[line |-> line, j |-> j,
                fg |-> IF bucket.Close < bucket.Open THEN "red" ELSE "green",
                wickStart |-> col(Min2(bucket.Min, bucket.Max)),
                wickStop |-> col(Max2(bucket.Min, bucket.Max)),
                bodyStart |-> col(Min2(bucket.Open, bucket.Close)),
                bodyStop |-> col(Max2(bucket.Open, bucket.Close))]>>
             \o CandleRows(candleFrame, bs, lowerBound, priceSpread, line + 1, j - 1)
    ELSE <<>>

\* DrawCandles
DrawCandles(candleFrame, bs) ==
    LET raw == RawBounds(bs, MaxFloat32, 0)
        bounds == PaddedBounds(raw)
        priceSpread == bounds.upperBound - bounds.lowerBound
    IN  [rawLower |-> raw.lowerBound, rawUpper |-> raw.upperBound,
         lowerBound |-> bounds.lowerBound, upperBound |-> bounds.upperBound,
         priceSpread |-> priceSpread, w |-> candleFrame.w,
         rows |-> CandleRows(candleFrame, bs, bounds.lowerBound, priceSpread,
                             1, Len(bs) - 1)]

\* lines 240-243: the largest Trades of the buckets, 0 when there are none
RECURSIVE VolumeUpperBound(_, _)
VolumeUpperBound(bs, acc) ==
    IF bs = <<>> THEN acc ELSE VolumeUpperBound(Tail(bs), Max2(acc, bs[1].Trades))

\* lines 248-258: one row per bucket; the bar fills columns 1..stop.  With
\* volumeSpread = 0 the quotient is NaN or Inf and int(stop) is whatever the
\* platform makes of it: divByZero marks the row and stop says nothing
RECURSIVE VolumeRows(_, _, _, _, _)
VolumeRows(volumeFrame, bs, volumeSpread, line, j) ==
    IF j >= 0 /\ line < volumeFrame.h
    THEN <<[line |-> line, j |-> j,
            divByZero |-> (volumeSpread = 0),
            start |-> 1,
            stop |-> IF volumeSpread = 0 THEN 0
                     ELSE ToInt(FDiv(bs[j + 1].Trades, volumeSpread)
                                * (volumeFrame.w - 1))]>>
         \o VolumeRows(volumeFrame, bs, volumeSpread, line + 1, j - 1)
    ELSE <<>>

\* DrawVolume
DrawVolume(volumeFrame, bs) ==
    LET volumeUpperBound == VolumeUpperBound(bs, 0)
    IN  [volumeUpperBound |-> volumeUpperBound,
         rows |-> VolumeRows(volumeFrame, bs, volumeUpperBound, 1, Len(bs) - 1)]

\* a plausible slip: the three border columns are not taken off
CandleWidthNoBorders(width) == width - (volumeWidth + tradeWidth)

\* line 301: candleWidth := width - (*volumeWidth + *tradeWidth + 3)
CandleWidth(width) == width - (volumeWidth + tradeWidth + 3)

\* Draw, lines 298-317: what is painted for these trades and buckets on a
\* terminal of this size
Draw(ts, bs, size) ==
    LET width == size.width
        height == size.height
        candleWidth == CandleWidth(width)
        volumeFrame == Frame(0, 1, volumeWidth, height - 2)
        candleFrame == Frame(volumeWidth + 1, 1, candleWidth, height - 2)
        tradeFrame == Frame(volumeWidth + candleWidth + 2, 1, tradeWidth, height - 2)
    IN  [size |-> size,
         nTrades |-> Len(ts),
         frames |-> [volume |-> volumeFrame, candle |-> candleFrame,
                     trade |-> tradeFrame],
         trades |-> DrawTrades(tradeFrame, ts),
         candle |-> DrawCandles(candleFrame, bs),
         volume |-> DrawVolume(volumeFrame, bs)]

\* the terminal before the first Draw
BlankScreen == Draw(<<>>, <<>>, [width |-> 0, height |-> 0])

-----------------------------------------------------------------------------
(* The handlers of the main loop *)

\* a plausible slip: the trade is ingested and the screen left as it was
OnMessageNoDraw(message) ==
    /\ ProcessMessage(message)
    /\ UNCHANGED <<screen, draws>>

\* lines 339-341: case message := <-messages
OnMessage(message) ==
    /\ ProcessMessage(message)
    /\ screen' = Draw(trades', buckets', term)
    /\ draws' = draws + 1

\* a plausible slip: every key ends the loop
OnEventAnyKeyQuits(ev) ==
    IF ev.Type = "EventKey"
    THEN /\ mainPc' = "Terminated"
         /\ UNCHANGED <<screen, draws>>
    ELSE IF ev.Type = "EventResize"
    THEN /\ screen' = Draw(trades, buckets, term)
         /\ draws' = draws + 1
         /\ UNCHANGED mainPc
    ELSE UNCHANGED <<mainPc, screen, draws>>

\* main, lines 342-350: case ev := <-events
OnEvent(ev) ==
    IF ev.Type = "EventKey"
    THEN /\ mainPc' = IF ev.Key = "KeyEsc" THEN "Terminated" ELSE mainPc
         /\ UNCHANGED <<screen, draws>>
    ELSE IF ev.Type = "EventResize"
    THEN /\ screen' = Draw(trades, buckets, term)
         /\ draws' = draws + 1
         /\ UNCHANGED mainPc
    ELSE UNCHANGED <<mainPc, screen, draws>>

-----------------------------------------------------------------------------
(* Connect and its reader goroutine *)

\* message := gdax.Message{}, line 91
ZeroMessage == [Side |-> "", Price |-> 0, Time |-> 0]

\* ReadJSON(&message): the fields present on the wire overwrite message, a
\* field that is absent (here: side, written "") keeps what message held
Decode(message, wire) ==
    [Side |-> IF wire.Side = "" THEN message.Side ELSE wire.Side,
     Price |-> wire.Price, Time |-> wire.Time]

\* a plausible slip: the wait grows linearly
BackoffLinear(n) == n

\* line 97: the seconds of time.Sleep after the failure that made the count n
Backoff(n) == n * n

\* a plausible slip: the break is missing and the old goroutine reads on
AfterConnectLoops == "read"

\* line 99: where the failing goroutine is once its nested Connect returned
AfterConnect == "break"

\* line 93: go func() on the connection wsConn ("open", or "nil" after a
\* failed Dial)
Spawn(ts, wsConn) ==
    Append(ts, [pc |-> "read", conn |-> wsConn, message |-> ZeroMessage])

\* Connect, lines 69-112, called with the goroutines ts.  Dial succeeds, or
\* it fails and leaves wsConn nil: WriteJSON on the nil connection then
\* returns an error that is printed, or it dereferences nil and panics
Connect(ts) ==
    \/ /\ tasks' = Spawn(ts, "open")
       /\ UNCHANGED crashed
    \/ /\ tasks' = Spawn(ts, "nil")
       /\ UNCHANGED crashed
    \/ /\ tasks' = ts
       /\ crashed' = TRUE

\* the process runs: no panic, and main has not returned
Alive == ~crashed /\ mainPc # "Terminated"

LogFail == [kind |-> "fail", Side |-> "", Price |-> 0, Time |-> 0]

LogMsg(wire) ==
    [kind |-> "msg", Side |-> wire.Side, Price |-> wire.Price, Time |-> wire.Time]

\* a plausible slip: the count is reset before the side is looked at
ReadMessageResetsFirst(i, wire) ==
    /\ Alive
    /\ tasks[i].pc = "read"
    /\ tasks[i].conn = "open"
    /\ Len(readLog) < MaxReads
    /\ LET message == Decode(tasks[i].message, wire)
       IN  IF Len(message.Side) = 0
           THEN tasks' = [tasks EXCEPT ![i].message = message]
           ELSE tasks' = [tasks EXCEPT ![i].message = message, ![i].pc = "send"]
    /\ connectionErrCount' = 0
    /\ readLog' = Append(readLog, LogMsg(wire))
    /\ UNCHANGED <<aggVars, crashed, lastSleep, uiVars>>

\* lines 95, 104-109: ReadJSON succeeded with this wire message
ReadMessage(i, wire) ==
    /\ Alive
    /\ tasks[i].pc = "read"
    /\ tasks[i].conn = "open"
    /\ Len(readLog) < MaxReads
    /\ LET message == Decode(tasks[i].message, wire)
       IN  IF Len(message.Side) = 0
           THEN /\ tasks' = [tasks EXCEPT ![i].message = message]
                /\ UNCHANGED connectionErrCount
           ELSE /\ tasks' = [tasks EXCEPT ![i].message = message, ![i].pc = "send"]
                /\ connectionErrCount' = 0
    /\ readLog' = Append(readLog, LogMsg(wire))
    /\ UNCHANGED <<aggVars, crashed, lastSleep, uiVars>>

\* lines 95-97: ReadJSON failed; the count goes up and the goroutine sleeps
ReadFail(i) ==
    /\ Alive
    /\ tasks[i].pc = "read"
    /\ Len(readLog) < MaxReads
    /\ connectionErrCount' = connectionErrCount + 1
    /\ lastSleep' = Backoff(connectionErrCount')
    /\ tasks' = [tasks EXCEPT ![i].pc = "sleep"]
    /\ readLog' = Append(readLog, LogFail)
    /\ UNCHANGED <<aggVars, crashed, uiVars>>

\* line 95 on a nil connection: ReadJSON dereferences nil and panics
ReadPanic(i) ==
    /\ Alive
    /\ tasks[i].pc = "read"
    /\ tasks[i].conn = "nil"
    /\ crashed' = TRUE
    /\ UNCHANGED <<aggVars, connectionErrCount, tasks, readLog, lastSleep, uiVars>>

\* a plausible slip: a retry limit
ReconnectLimited(i) ==
    /\ Alive
    /\ tasks[i].pc = "sleep"
    /\ connectionErrCount < 2
    /\ Connect([tasks EXCEPT ![i].pc = AfterConnect])
    /\ UNCHANGED <<aggVars, connectionErrCount, readLog, lastSleep, uiVars>>

\* line 98: the sleep is over and the goroutine calls Connect(out)
Reconnect(i) ==
    /\ Alive
    /\ tasks[i].pc = "sleep"
    /\ Connect([tasks EXCEPT ![i].pc = AfterConnect])
    /\ UNCHANGED <<aggVars, connectionErrCount, readLog, lastSleep, uiVars>>

\* line 99: break, and the goroutine ends
Exit(i) ==
    /\ Alive
    /\ tasks[i].pc = "break"
    /\ tasks' = [tasks EXCEPT ![i].pc = "done"]
    /\ UNCHANGED <<aggVars, connectionErrCount, crashed, readLog, lastSleep, uiVars>>

-----------------------------------------------------------------------------
(* main *)

SysSizes == {[width |-> 80, height |-> 24], [width |-> 40, height |-> 4]}

KeyEvent(key) == [Type |-> "EventKey", Key |-> key, Width |-> 0, Height |-> 0]

ResizeEvent(size) ==
    [Type |-> "EventResize", Key |-> "", Width |-> size.width, Height |-> size.height]

MouseEvent == [Type |-> "EventMouse", Key |-> "", Width |-> 0, Height |-> 0]

\* main, lines 319-334: GetMessages (the first Connect), GetEvents and the
\* first Draw
Startup ==
    /\ mainPc = "Init"
    /\ ~crashed
    /\ Connect(tasks)
    /\ IF crashed'
       THEN UNCHANGED <<mainPc, screen, draws>>
       ELSE /\ mainPc' = "Running"
            /\ screen' = Draw(trades, buckets, term)
            /\ draws' = draws + 1
    /\ UNCHANGED <<aggVars, connectionErrCount, readLog, lastSleep, events, term>>

\* GetEvents, lines 122-126: PollEvent returned ev, which waits to be sent;
\* a resize is the terminal taking a new size
PollEvent ==
    /\ Alive
    /\ mainPc = "Running"
    /\ events = <<>>
    /\ \/ \E key \in {"KeyEsc", "KeyEnter"} :
             /\ events' = <<KeyEvent(key)>>
             /\ UNCHANGED term
       \/ /\ events' = <<MouseEvent>>
          /\ UNCHANGED term
       \/ /\ draws < MaxDraws
          /\ \E size \in SysSizes :
                /\ events' = <<ResizeEvent(size)>>
                /\ term' = size
    /\ UNCHANGED <<aggVars, connVars, mainPc, screen, draws>>

\* main, line 339: a goroutine blocked on out <- message hands it over
RecvMessage ==
    /\ Alive
    /\ mainPc = "Running"
    /\ \E i \in 1..Len(tasks) :
          /\ tasks[i].pc = "send"
          /\ OnMessage(tasks[i].message)
          /\ tasks' = [tasks EXCEPT ![i].pc = "read"]
    /\ UNCHANGED <<connectionErrCount, crashed, readLog, lastSleep, events,
                   mainPc, term>>

\* main, line 342: the event goroutine hands its event over
RecvEvent ==
    /\ Alive
    /\ mainPc = "Running"
    /\ events # <<>>
    /\ events' = <<>>
    /\ OnEvent(events[1])
    /\ UNCHANGED <<aggVars, connVars, term>>

-----------------------------------------------------------------------------
(* The whole program *)

Wire == [Side : {"", "buy", "sell"}, Price : {100}, Time : {0}]

Init ==
    /\ trades = <<>>
    /\ buckets = <<>>
    /\ routed = <<>>
    /\ connectionErrCount = 0
    /\ tasks = <<>>
    /\ crashed = FALSE
    /\ readLog = <<>>
    /\ lastSleep = 0
    /\ events = <<>>
    /\ mainPc = "Init"
    /\ term = [width |-> 80, height |-> 24]
    /\ screen = BlankScreen
    /\ draws = 0

Next ==
    \/ Startup
    \/ \E i \in 1..Len(tasks) : \E wire \in Wire : ReadMessage(i, wire)
    \/ \E i \in 1..Len(tasks) : ReadFail(i)
    \/ \E i \in 1..Len(tasks) : ReadPanic(i)
    \/ \E i \in 1..Len(tasks) : Reconnect(i)
    \/ \E i \in 1..Len(tasks) : Exit(i)
    \/ PollEvent
    \/ RecvMessage
    \/ RecvEvent

Spec == Init /\ [][Next]_vars

\* The whole program with its scheduling: main is not stopped before its
\* loop, a sleep ends, a goroutine that can run does, and a select with a
\* ready case takes one (chosen at random among the ready ones, so neither
\* channel is starved).  What the feed sends and what the user types is
\* left open.
Fairness ==
    /\ WF_vars(Startup)
    /\ WF_vars(RecvMessage)
    /\ WF_vars(RecvEvent)
    /\ \A i \in 1..(MaxReads + 1) :
          /\ WF_vars(i <= Len(tasks) /\ Reconnect(i))
          /\ WF_vars(i <= Len(tasks) /\ Exit(i))

\* GetEvents on a terminal that is not resized: keys and the mouse only
PollInput ==
    /\ Alive
    /\ mainPc = "Running"
    /\ events = <<>>
    /\ events' \in {<<KeyEvent("KeyEsc")>>, <<KeyEvent("KeyEnter")>>, <<MouseEvent>>}
    /\ UNCHANGED <<aggVars, connVars, mainPc, term, screen, draws>>

NextFair ==
    \/ Startup
    \/ \E i \in 1..Len(tasks) : \E wire \in Wire : ReadMessage(i, wire)
    \/ \E i \in 1..Len(tasks) : ReadFail(i)
    \/ \E i \in 1..Len(tasks) : ReadPanic(i)
    \/ \E i \in 1..Len(tasks) : Reconnect(i)
    \/ \E i \in 1..Len(tasks) : Exit(i)
    \/ PollInput
    \/ RecvMessage
    \/ RecvEvent

SpecFair == Init /\ [][NextFair]_vars /\ Fairness

-----------------------------------------------------------------------------
(* The aggregator driven alone: ProcessMessage on arbitrary trades *)

AggPrices == {98, 100, 101, 102}

AggMsgs == [Side : {"buy"}, Price : AggPrices, Time : 0..MaxTime]

InitAgg ==
    /\ trades = <<>>
    /\ buckets = <<>>
    /\ routed = <<>>
    /\ connectionErrCount = 0
    /\ tasks = <<>>
    /\ crashed = FALSE
    /\ readLog = <<>>
    /\ lastSleep = 0
    /\ events = <<>>
    /\ mainPc = "Running"
    /\ term = [width |-> 80, height |-> 24]
    /\ screen = BlankScreen
    /\ draws = 0

Ingest ==
    /\ Len(trades) < MaxTrades
    /\ \E m \in AggMsgs : ProcessMessage(m)
    /\ UNCHANGED <<connVars, uiVars>>

NextAgg == Ingest

SpecAgg == InitAgg /\ [][NextAgg]_vars

-----------------------------------------------------------------------------
(* The renderer driven by the main loop's trade handler alone, on terminals *)
(* of several sizes                                                         *)

\* the longest trade history explored
MaxDrawTrades == 3

DrawPrices == {98, 100, 120, 198}

DrawMsgs == [Side : {"buy", "sell"}, Price : DrawPrices, Time : {0, candleSize}]

DrawSizes == [width : {28, 80}, height : {3, 4, 5}]

InitDraw ==
    /\ trades = <<>>
    /\ buckets = <<>>
    /\ routed = <<>>
    /\ connectionErrCount = 0
    /\ tasks = <<>>
    /\ crashed = FALSE
    /\ readLog = <<>>
    /\ lastSleep = 0
    /\ events = <<>>
    /\ mainPc = "Running"
    /\ term \in DrawSizes
    /\ screen = Draw(trades, buckets, term)
    /\ draws = 1

FeedMessage ==
    /\ mainPc = "Running"
    /\ Len(trades) < MaxDrawTrades
    /\ \E m \in DrawMsgs : OnMessage(m)
    /\ UNCHANGED <<connVars, events, mainPc, term>>

NextDraw == FeedMessage

SpecDraw == InitDraw /\ [][NextDraw]_vars

-----------------------------------------------------------------------------
(* Claims about ProcessMessage *)

\* floor(timestamp/candleSize)*candleSize
WindowStart(ts) == (ts \div candleSize) * candleSize

NonDecreasing(ms) == \A i \in 1..(Len(ms) - 1) : ms[i].Time <= ms[i + 1].Time

\* the window starts of a trade sequence, each once, in order of first occurrence
RECURSIVE FirstOccurrences(_, _)
FirstOccurrences(ms, seen) ==
    IF ms = <<>> THEN <<>>
    ELSE LET w == WindowStart(ms[1].Time)
         IN  IF w \in seen THEN FirstOccurrences(Tail(ms), seen)
             ELSE <<w>> \o FirstOccurrences(Tail(ms), seen \cup {w})

Windows(ms) == {WindowStart(ms[i].Time) : i \in 1..Len(ms)}

\* C1: for trades fed with non-decreasing timestamps, there are as many
\* buckets as distinct windows floor(timestamp/candleSize), and the buckets'
\* Start values are those window starts in order of first occurrence.
C1_BucketsAreWindows ==
    NonDecreasing(trades) =>
        /\ Len(buckets) = Cardinality(Windows(trades))
        /\ [i \in 1..Len(buckets) |-> buckets[i].Start]
              = FirstOccurrences(trades, {})

\* four ordered trades over two windows, one window seen more than once
C1_Witness ==
    /\ Len(trades) = 4
    /\ NonDecreasing(trades)
    /\ Len(buckets) = 2
    /\ buckets[1].Trades = 2

\* C2: after every call, each bucket's Open is the first price routed into
\* it, Close the latest, Min and Max the minimum and maximum of the routed
\* prices and Trades their number; prices 100, 102, 98, 101 in one window
\* give the one bucket Open=100, Close=101, Max=102, Min=98, Trades=4.
C2_BucketSummarisesRouted ==
    /\ Len(routed) = Len(buckets)
    /\ \A i \in 1..Len(buckets) :
          /\ Len(routed[i]) >= 1
          /\ buckets[i].Open = routed[i][1]
          /\ buckets[i].Close = Last(routed[i])
          /\ buckets[i].Min = SeqMin(routed[i])
          /\ buckets[i].Max = SeqMax(routed[i])
          /\ buckets[i].Trades = Len(routed[i])
    /\ ( /\ [i \in 1..Len(trades) |-> trades[i].Price] = <<100, 102, 98, 101>>
         /\ \A i \in 1..Len(trades) :
               WindowStart(trades[i].Time) = WindowStart(trades[1].Time) )
       => /\ Len(buckets) = 1
          /\ buckets[1].Open = 100
          /\ buckets[1].Close = 101
          /\ buckets[1].Max = 102
          /\ buckets[1].Min = 98
          /\ buckets[1].Trades = 4

\* the scenario of the claim has been fed
C2_Witness ==
    /\ [i \in 1..Len(trades) |-> trades[i].Price] = <<100, 102, 98, 101>>
    /\ Len(buckets) = 1
    /\ buckets[1].Trades = 4

StrictlyIncreasingStarts ==
    \A i, j \in 1..Len(buckets) : i < j => buckets[i].Start < buckets[j].Start

\* C9 as stated: in every reachable state the buckets are strictly
\* increasing by Start.
C9_Original == StrictlyIncreasingStarts

\* C9 amended: after trades fed with non-decreasing timestamps, the buckets
\* are strictly increasing by Start.
C9_IncreasingWhenOrdered == NonDecreasing(trades) => StrictlyIncreasingStarts

\* ordered trades have produced more than one bucket
C9_Witness ==
    /\ NonDecreasing(trades)
    /\ Len(buckets) = 2
    /\ buckets[1].Start < buckets[2].Start

-----------------------------------------------------------------------------
(* Claims about Draw *)

\* C5: whenever the bounds of DrawCandles are more than 0 apart, the column
\* mapping puts lowerBound on column 1 and upperBound on column
\* panelWidth - 1 exactly (no fraction is left over).
C5_ColumnEndpoints ==
    LET c == screen.candle
    IN  c.priceSpread > 0 =>
          /\ Column(c.lowerBound, c.lowerBound, c.priceSpread, c.w) = 1 * Scale
          /\ Column(c.upperBound, c.lowerBound, c.priceSpread, c.w)
                = (c.w - 1) * Scale
          /\ \A r \in 1..Len(c.rows) :
                /\ buckets[c.rows[r].j + 1].Min = c.lowerBound
                      => c.rows[r].wickStart = 1
                /\ buckets[c.rows[r].j + 1].Max = c.upperBound
                      => c.rows[r].wickStop = c.w - 1

\* a drawn candle reaches from the lower bound to the upper bound of a wide
\* panel whose bounds were not padded
C5_Witness ==
    LET c == screen.candle
    IN  /\ c.priceSpread > 0
        /\ c.w > 2
        /\ c.rawLower = c.lowerBound
        /\ \E r \in 1..Len(c.rows) :
              /\ c.rows[r].wickStart = 1
              /\ c.rows[r].wickStop = c.w - 1
              /\ buckets[c.rows[r].j + 1].Min = c.lowerBound
              /\ buckets[c.rows[r].j + 1].Max = c.upperBound

\* a bar cell is drawn, or may be drawn, in this row of the volume panel
BarDrawn(row) == row.divByZero \/ row.start <= row.stop

\* C6: whenever DrawVolume finds the maximum Trades to be 0, no bar cell is
\* drawn in any row and no bar length comes from a division by zero.
C6_NoBarWhenVolumeZero ==
    (draws > 0 /\ screen.volume.volumeUpperBound = 0) =>
        \A r \in 1..Len(screen.volume.rows) :
              /\ ~screen.volume.rows[r].divByZero
              /\ ~BarDrawn(screen.volume.rows[r])

\* the first render: no buckets, rows to draw in, a maximum of 0
C6_Witness ==
    /\ draws = 1
    /\ screen.frames.volume.h > 1
    /\ screen.volume.volumeUpperBound = 0
    /\ screen.volume.rows = <<>>

\* C7: the bounds of DrawCandles are padded if and only if they are less
\* than 100 apart, and then both by exactly 50; Min=98, Max=198 is left
\* unpadded and Min=100, Max=120 becomes [50, 170].
C7_PaddingThreshold ==
    LET c == screen.candle
        padded == c.lowerBound # c.rawLower \/ c.upperBound # c.rawUpper
    IN  /\ padded <=> (c.rawUpper - c.rawLower < 100)
        /\ padded => /\ c.lowerBound = c.rawLower - 50
                     /\ c.upperBound = c.rawUpper + 50
        /\ (c.rawLower = 98 /\ c.rawUpper = 198)
              => (c.lowerBound = 98 /\ c.upperBound = 198)
        /\ (c.rawLower = 100 /\ c.rawUpper = 120)
              => (c.lowerBound = 50 /\ c.upperBound = 170)

\* both scenarios of the claim have been drawn: here the spread of exactly 100
C7_Witness ==
    /\ Len(buckets) >= 1
    /\ screen.candle.rawLower = 98
    /\ screen.candle.rawUpper = 198
    /\ screen.candle.lowerBound = 98
    /\ screen.candle.upperBound = 198

-----------------------------------------------------------------------------
(* Claims about Connect and the main loop *)

\* the read failures since the last message read with a side (all of them
\* when there was none)
RECURSIVE FailsSinceTrade(_)
FailsSinceTrade(log) ==
    IF log = <<>> THEN 0
    ELSE LET e == Last(log)
             before == SubSeq(log, 1, Len(log) - 1)
         IN  IF e.kind = "msg" /\ e.Side # "" THEN 0
             ELSE FailsSinceTrade(before) + (IF e.kind = "fail" THEN 1 ELSE 0)

\* C3: after the Nth consecutive read failure (no trade read in between)
\* the goroutine sleeps exactly N*N seconds before it connects again; a
\* trade resets the count, so the first failure after one sleeps 1 second.
C3_QuadraticBackoff ==
    /\ connectionErrCount = FailsSinceTrade(readLog)
    /\ \A i \in 1..Len(tasks) :
          tasks[i].pc = "sleep" =>
             /\ Last(readLog).kind = "fail"
             /\ FailsSinceTrade(readLog) >= 1
             /\ lastSleep = FailsSinceTrade(readLog) * FailsSinceTrade(readLog)

\* a failure, then a trade, then a failure again: the goroutine sleeps 1 second
C3_Witness ==
    /\ Len(readLog) = 3
    /\ readLog[1].kind = "fail"
    /\ readLog[2].kind = "msg" /\ readLog[2].Side = "buy"
    /\ readLog[3].kind = "fail"
    /\ \E i \in 1..Len(tasks) : tasks[i].pc = "sleep"
    /\ lastSleep = 1

\* the goroutines that can still read, push or touch connectionErrCount
ActivePcs == {"read", "send", "sleep"}

Active == {i \in 1..Len(tasks) : tasks[i].pc \in ActivePcs}

\* C4: at most one reader goroutine is active at a time, and a goroutine
\* whose nested Connect has spawned its replacement never becomes active
\* again (it neither reads, pushes nor touches connectionErrCount).
C4_OneActiveReader ==
    /\ [](Cardinality(Active) <= 1)
    /\ [][\A i \in 1..Len(tasks) : i \notin Active => i \notin Active']_vars

\* a failed goroutine has not ended yet while its replacement reads
C4_Witness ==
    \E i, j \in 1..Len(tasks) :
        /\ tasks[i].pc = "break"
        /\ tasks[j].pc = "read"
        /\ readLog # <<>>

\* C8 as stated: a failed dial is not fatal, the process keeps running.  In
\* the model the process dies only of the nil connection a failed dial
\* leaves behind.
C8_Original == ~crashed

\* C10: each trade the main loop takes from the channel is ingested and then
\* drawn exactly once within the same turn of the loop, so the screen always
\* shows the whole trade history and no two trades are ingested without a
\* Draw between them.
C10_DrawAfterEachTrade ==
    /\ [][trades' # trades =>
             /\ Len(trades') = Len(trades) + 1
             /\ draws' = draws + 1
             /\ screen' = Draw(trades', buckets', term')]_vars
    /\ [](draws > 0 => screen.nTrades = Len(trades))

\* two trades were ingested and the screen was drawn after each
C10_Witness ==
    /\ mainPc = "Running"
    /\ Len(trades) = 2
    /\ draws = 3
    /\ screen.nTrades = 2

-----------------------------------------------------------------------------
(* Further claims about ProcessMessage and Draw *)

\* C12: on a terminal at least volumeWidth + tradeWidth + 3 wide, the
\* candle panel is given the width that makes volumeWidth + candleWidth +
\* tradeWidth + 3 the terminal width, and it is not negative; a width of 80
\* gives 52.
C12_PanelWidthsAddUp ==
    (draws > 0 /\ screen.size.width >= volumeWidth + tradeWidth + 3) =>
        /\ screen.frames.volume.w = volumeWidth
        /\ screen.frames.trade.w = tradeWidth
        /\ screen.frames.volume.w + screen.frames.candle.w
              + screen.frames.trade.w + 3 = screen.size.width
        /\ screen.frames.candle.w >= 0
        /\ screen.size.width = 80 => screen.frames.candle.w = 52

\* the scenario of the claim was drawn with trades on the screen
C12_Witness ==
    /\ draws > 1
    /\ screen.size.width = 80
    /\ screen.frames.candle.w = 52

\* C15: a call of ProcessMessage appends exactly one entry to the history
\* and at most one bucket, removes and reorders nothing, and leaves every
\* bucket but the last of the new sequence as it was.
C15_AppendOnly ==
    [][trades' # trades =>
          /\ Len(trades') = Len(trades) + 1
          /\ SubSeq(trades', 1, Len(trades)) = trades
          /\ Len(buckets') \in {Len(buckets), Len(buckets) + 1}
          /\ \A i \in 1..(Len(buckets') - 1) : buckets'[i] = buckets[i]]_vars

\* a call has updated the last bucket and another has appended one after it
C15_Witness ==
    /\ Len(trades) = 3
    /\ Len(buckets) = 2
    /\ buckets[1].Trades = 2
    /\ buckets[1].Close # buckets[2].Open

RECURSIVE SumTrades(_)
SumTrades(bs) == IF bs = <<>> THEN 0 ELSE bs[1].Trades + SumTrades(Tail(bs))

\* C20: every bucket has Trades >= 1, the Trades of all buckets add up to
\* the length of the trade history, and the volume maximum is 0 only when
\* there are no buckets.
C20_TradesCounted ==
    /\ \A i \in 1..Len(buckets) : buckets[i].Trades >= 1
    /\ SumTrades(buckets) = Len(trades)
    /\ VolumeUpperBound(buckets, 0) = 0 => buckets = <<>>

\* several buckets, one of them with more than one trade
C20_Witness ==
    /\ Len(buckets) = 3
    /\ Len(trades) = 4
    /\ VolumeUpperBound(buckets, 0) = 2

\* the buckets shown in the rows of the candle panel
VisibleBuckets == {screen.candle.rows[r].j + 1 : r \in 1..Len(screen.candle.rows)}

RECURSIVE SetMin(_)
SetMin(S) ==
    LET x == CHOOSE y \in S : TRUE
    IN  IF S = {x} THEN x ELSE Min2(x, SetMin(S \ {x}))

RECURSIVE SetMax(_)
SetMax(S) ==
    LET x == CHOOSE y \in S : TRUE
    IN  IF S = {x} THEN x ELSE Max2(x, SetMax(S \ {x}))

\* C16 as stated: the bounds DrawCandles scales with (before the padding)
\* are the least Min and the greatest Max of the visible buckets only.
C16_Original ==
    (draws > 0 /\ VisibleBuckets # {}) =>
        /\ screen.candle.rawLower = SetMin({buckets[b].Min : b \in VisibleBuckets})
        /\ screen.candle.rawUpper = SetMax({buckets[b].Max : b \in VisibleBuckets})

\* the rows of a panel of height h over a sequence of n elements: row i
\* shows element n - i (counted from 0), min(n, h - 1) rows in all
PanelRows(rows, n, h) ==
    /\ Len(rows) = Min2(n, h - 1)
    /\ \A i \in 1..Len(rows) : rows[i].line = i /\ rows[i].j = n - i

\* C17: in each of the three panels, of frame height h >= 1 over n
\* elements, row i shows the i-th most recent element (index n - i),
\* exactly min(n, h - 1) rows are drawn and nothing older is.
C17_MostRecentRows ==
    draws > 0 =>
        /\ PanelRows(screen.trades, Len(trades), screen.frames.trade.h)
        /\ PanelRows(screen.candle.rows, Len(buckets), screen.frames.candle.h)
        /\ PanelRows(screen.volume.rows, Len(buckets), screen.frames.volume.h)
        /\ \A i \in 1..Len(screen.trades) :
              /\ screen.trades[i].side = trades[Len(trades) - i + 1].Side
              /\ screen.trades[i].price = trades[Len(trades) - i + 1].Price

\* more trades and more buckets than rows: the oldest of each is not drawn
C17_Witness ==
    /\ screen.frames.trade.h = 3
    /\ Len(trades) = 3
    /\ Len(screen.trades) = 2
    /\ Len(buckets) = 3
    /\ Len(screen.candle.rows) = 2
    /\ Len(screen.volume.rows) = 2
    /\ screen.trades[1].price # screen.trades[2].price

-----------------------------------------------------------------------------
(* Further claims about Connect and the main loop *)

\* a ReadJSON call returned in this step
ReadStep == readLog' # readLog

\* the message read in this step goes on to the sink
Forwarded == \E i \in 1..Len(tasks) : tasks[i].pc = "read" /\ tasks'[i].pc = "send"

\* C13 as stated: every successful read resets connectionErrCount to 0,
\* also the read of a message that is discarded for lacking a side, and
\* every read failure increments it by exactly 1.
C13_Original ==
    [][ReadStep =>
          IF Last(readLog').kind = "fail"
          THEN connectionErrCount' = connectionErrCount + 1
          ELSE connectionErrCount' = 0]_vars

\* C13 amended: a successful read resets connectionErrCount to 0 when its
\* message goes on to the sink; the read of a message that is discarded for
\* lacking a side leaves the count as it was; every read failure increments
\* it by exactly 1.
C13_ResetOnForwardedRead ==
    [][ReadStep =>
          IF Last(readLog').kind = "fail"
          THEN connectionErrCount' = connectionErrCount + 1
          ELSE IF Forwarded
          THEN connectionErrCount' = 0
          ELSE connectionErrCount' = connectionErrCount]_vars

\* after a failure, a message without a side was read and discarded: the
\* count is still 1
C13_Witness ==
    /\ Len(readLog) = 2
    /\ readLog[1].kind = "fail"
    /\ readLog[2].kind = "msg" /\ readLog[2].Side = ""
    /\ connectionErrCount = 1
    /\ \E i \in 1..Len(tasks) : tasks[i].pc = "read" /\ tasks[i].message.Side = ""

\* the main loop takes a key event other than Escape in this step
OtherKeyTaken ==
    /\ mainPc = "Running"
    /\ events # <<>>
    /\ events' = <<>>
    /\ events[1].Type = "EventKey"
    /\ events[1].Key # "KeyEsc"

\* C18: a key event other than Escape taken in the Running state changes
\* neither the trade history nor the buckets, triggers no Draw and leaves
\* the loop Running.
C18_OtherKeysIgnored ==
    [][OtherKeyTaken =>
          /\ UNCHANGED <<trades, buckets, screen, draws>>
          /\ mainPc' = "Running"]_vars

\* a key other than Escape waits to be taken while trades are on the screen
C18_Witness ==
    /\ mainPc = "Running"
    /\ ~crashed
    /\ events = <<KeyEvent("KeyEnter")>>
    /\ Len(trades) >= 1
    /\ draws >= 2

\* the messages read with a side, in the order they were read
RECURSIVE SidedMessages(_)
SidedMessages(log) ==
    IF log = <<>> THEN <<>>
    ELSE LET e == log[1]
         IN  IF e.kind = "msg" /\ e.Side # ""
             THEN <<[Side |-> e.Side, Price |-> e.Price, Time |-> e.Time]>>
                  \o SidedMessages(Tail(log))
             ELSE SidedMessages(Tail(log))

\* a reader is blocked on pushing its message
PushPending == \E i \in 1..Len(tasks) : tasks[i].pc = "send"

\* C19 as stated: while the loop is Running the trade history is exactly the
\* messages read with a side, in the order read (less the one a reader is
\* blocked on pushing); a message without a side is never pushed.
C19_Original ==
    mainPc = "Running" =>
        LET sided == SidedMessages(readLog)
        IN  trades = IF PushPending
                     THEN SubSeq(sided, 1, Len(sided) - 1)
                     ELSE sided

\* the main loop takes an Escape key event in this step
EscTaken ==
    /\ mainPc = "Running"
    /\ events = <<KeyEvent("KeyEsc")>>
    /\ events' = <<>>

\* C11 as stated: taking an Escape key event moves the loop from Running to
\* Terminated, after which no trade is ingested and nothing is drawn; and
\* with fair selection a pending Escape event is eventually processed.
C11_Original ==
    /\ [][EscTaken => mainPc' = "Terminated"]_vars
    /\ [][mainPc = "Terminated" =>
             UNCHANGED <<mainPc, trades, buckets, screen, draws>>]_vars
    /\ (events = <<KeyEvent("KeyEsc")>>) ~> (mainPc = "Terminated")

\* goroutine i sleeps after a read failure
Sleeping(i) == i <= Len(tasks) /\ tasks[i].pc = "sleep"

\* goroutine i has called Connect again
Reconnected(i) == i <= Len(tasks) /\ tasks[i].pc \in {"break", "done"}

\* C14: every read failure is eventually followed by a new connection
\* attempt, however many failures came before: while the process runs, a
\* sleeping goroutine can always go on to Connect, it does so, and the
\* Connect leaves a new reader on a fresh message.
C14_AlwaysRetries ==
    /\ [](\A i \in 1..Len(tasks) :
             (Alive /\ tasks[i].pc = "sleep") => ENABLED Reconnect(i))
    /\ [][\A i \in 1..Len(tasks) :
             (tasks[i].pc = "sleep" /\ tasks'[i].pc # "sleep" /\ ~crashed') =>
                 /\ Len(tasks') = Len(tasks) + 1
                 /\ Last(tasks').pc = "read"
                 /\ Last(tasks').message = ZeroMessage]_vars
    /\ \A i \in 1..(MaxReads + 1) :
          Sleeping(i) ~> (Reconnected(i) \/ mainPc = "Terminated")

\* the second failure in a row was followed by a Connect and a new reader
C14_Witness ==
    /\ Len(tasks) = 3
    /\ connectionErrCount = 2
    /\ tasks[2].pc \in {"break", "done"}
    /\ tasks[3].pc = "read"
    /\ ~crashed

====
